---- MODULE Spec2Model ----
(***************************************************************************)
(* Model of src/shell.rs: the thread-safe Shell handle (verbosity, one     *)
(* OutSink per channel behind its own Mutex) and OutSink::print.           *)
(*                                                                         *)
(* Spec      : callers invoke the Shell's public methods concurrently.     *)
(* SpecSink  : OutSink::print is applied directly to a sink with every     *)
(*             combination of its arguments (justified, message, width).   *)
(***************************************************************************)
EXTENDS Integers, Sequences, FiniteSets, TLC

VARIABLES
    ctor,       \* the constructor call that built the Shell (never changes)
    verbosity,  \* Shell.verbosity
    sink,       \* Shell.out / Shell.err: the OutSink inside each Mutex
    lock,       \* which caller holds each Mutex (NoThread when free)
    poisoned,   \* whether each Mutex is poisoned
    pc,         \* each caller's position
    call,       \* each caller's current (or last) call
    ncalls,     \* number of calls started so far, over all callers
    ret,        \* value returned by each caller's last finished call
    chanlog     \* per channel: the calls that wrote to it, in write order
                \* (consecutive writes of one call are one entry)

vars == <<ctor, verbosity, sink, lock, poisoned, pc, call, ncalls, ret, chanlog>>

----------------------------------------------------------------------------
(* Bounds *)

NumThreads == 2
MaxCalls == 2
MaxLines == 2
MaxWidth == 15
UsizeBits == 16

(* const JUSTIFY_STATUS_LEN: usize = 12usize *)
JUSTIFY_STATUS_LEN == 12

Threads == 1..NumThreads
NoThread == 0
Channels == {"out", "err"}

Verbosities == {"Verbose", "Normal", "Quiet"}
ColorModes == {"Auto", "Always", "Never"}
Colors == {"Green", "Cyan", "Red", "Yellow"}

Messages == {"m1", "m2"}
NoMessage == "None"
NoStatus == "None"
StatusTokens == {"Done", "Initializing"}

(* Option<usize>: None is 0, since imp::width only returns Some(n) for n > 0 *)
NoWidth == 0

(* usize arithmetic *)
UsizeMod == 2 ^ UsizeBits

(* status_str.len() *)
TokenLen(s) ==
    CASE s = "(error)" -> 7
      [] s = "(warning)" -> 9
      [] s = "(note)" -> 6
      [] s = "Done" -> 4
      [] s = "Initializing" -> 12

----------------------------------------------------------------------------
(* Verbosity::from_opts *)
from_opts(quiet, verbose) ==
    IF quiet THEN "Quiet"
    ELSE IF verbose THEN "Verbose" ELSE "Normal"

into_termcolor_unchecked(mode, is_terminal) == mode

(* ColorMode::into_termcolor; is_terminal is atty::is(stream) *)
into_termcolor(mode, is_terminal) ==
    CASE mode = "Always" -> "Always"
      [] mode = "Never" -> "Never"
      [] mode = "Auto" -> IF is_terminal THEN "Auto" ELSE "Never"

(* OutSink::Stream { color_mode, stream, stream_type, is_tty }; the          *)
(* StandardStream is represented by the ColorChoice it was built with.       *)
StreamSink(mode, stream_type, is_terminal) ==
    [kind |-> "Stream", color_mode |-> mode,
     choice |-> into_termcolor(mode, is_terminal),
     stream_type |-> stream_type, is_tty |-> is_terminal]

(* OutSink::Write(Box<dyn Write + Send>) *)
WriteSink ==
    [kind |-> "Write", color_mode |-> "Never", choice |-> "Never",
     stream_type |-> "None", is_tty |-> FALSE]

(* Shell::new(opts) *)
ShellNew(quiet, verbose, mode, tty_out, tty_err) ==
    [verbosity |-> from_opts(quiet, verbose),
     out |-> StreamSink(mode, "Stdout", tty_out),
     err |-> StreamSink(mode, "Stderr", tty_err)]

(* Shell::from_write(stdout, stderr) *)
ShellFromWrite ==
    [verbosity |-> "Verbose", out |-> WriteSink, err |-> WriteSink]

Ctors ==
    [kind : {"new"}, quiet : BOOLEAN, verbose : BOOLEAN, color_mode : ColorModes,
     tty_out : BOOLEAN, tty_err : BOOLEAN]
    \cup
    {[kind |-> "from_write", quiet |-> FALSE, verbose |-> TRUE,
      color_mode |-> "Never", tty_out |-> FALSE, tty_err |-> FALSE]}

Construct(c) ==
    IF c.kind = "new"
    THEN ShellNew(c.quiet, c.verbose, c.color_mode, c.tty_out, c.tty_err)
    ELSE ShellFromWrite

NoCall ==
    [op |-> "none", id |-> 0, ch |-> "out",
     arg_status |-> NoStatus, arg_message |-> NoMessage,
     status |-> NoStatus, message |-> NoMessage,
     color |-> "Green", justified |-> TRUE, prints |-> 0,
     width |-> NoWidth, plan |-> <<>>, pos |-> 0,
     wrap |-> -1, outcome |-> "none"]

InitShell(c) ==
    /\ ctor = c
    /\ verbosity = Construct(c).verbosity
    /\ sink = [ch \in Channels |-> IF ch = "out" THEN Construct(c).out
                                   ELSE Construct(c).err]
    /\ lock = [ch \in Channels |-> NoThread]
    /\ poisoned = [ch \in Channels |-> FALSE]
    /\ pc = [t \in Threads |-> "idle"]
    /\ call = [t \in Threads |-> NoCall]
    /\ ncalls = 0
    /\ ret = [t \in Threads |-> "none"]
    /\ chanlog = [ch \in Channels |-> <<>>]

Init == \E c \in Ctors : InitShell(c)

----------------------------------------------------------------------------
(* OutSink::width / imp::width: None unless the sink is a Stream flagged    *)
(* is_tty; then whatever the TIOCGWINSZ ioctl reports at this call.         *)
ProbeWidths(s) ==
    IF s.kind = "Stream" /\ s.is_tty
    THEN {NoWidth} \cup (1..MaxWidth)
    ELSE {NoWidth}

(* Widths sampled when the Shell's methods are called: one per case of      *)
(* width - (offset + 1) with offset = JUSTIFY_STATUS_LEN.                   *)
ShellWidths ==
    {NoWidth, JUSTIFY_STATUS_LEN, JUSTIFY_STATUS_LEN + 1, MaxWidth}

(* offset: the width occupied by the line header (Stream arm) *)
Offset(s, status, justified) ==
    IF justified /\ s.is_tty THEN JUSTIFY_STATUS_LEN ELSE TokenLen(status) + 1

(* The writes of the Stream arm up to the message, in program order *)
StreamHeader(s, justified) ==
    <<"reset", "set_color">>
    \o (IF justified /\ s.is_tty
        THEN <<"status_rjust">>
        ELSE <<"status", "set_bold", "colon">>)
    \o <<"reset">>

(* The message part of the Stream arm; "wrap" is the computation of         *)
(* textwrap::wrap_iter(&formatted, width - (offset + 1))                    *)
StreamMessage(message, width) ==
    IF message = NoMessage THEN <<"space">>
    ELSE IF width = NoWidth THEN <<"msg_line">>
    ELSE <<"wrap">>

WriteHeaderNoColon(justified) == <<"status_ljust">>

(* The writes of the Write arm *)
WriteHeader(justified) ==
    IF justified THEN <<"status_ljust">> ELSE <<"status_colon">>

WriteMessage(message) ==
    IF message = NoMessage THEN <<"space">> ELSE <<"msg_line">>

(* OutSink::print: the steps it will take on sink s *)
PrintPlan(s, message, justified, width) ==
    IF s.kind = "Stream"
    THEN StreamHeader(s, justified) \o StreamMessage(message, width)
    ELSE WriteHeader(justified) \o WriteMessage(message)

(* The writeln! calls of the loop over the wrapped lines *)
WrappedLines(n) ==
    [i \in 1..n |-> IF i = 1 THEN "first_line" ELSE "cont_line"]

(* What each write puts on the sink *)
WriteBytes(item) ==
    CASE item = "status_rjust" -> <<"pad", "status">>
      [] item = "status" -> <<"status">>
      [] item = "colon" -> <<":">>
      [] item = "status_ljust" -> <<"status", "pad">>
      [] item = "status_colon" -> <<"status", ":">>
      [] item = "space" -> <<" ">>
      [] item = "msg_line" -> <<" ", "message", "\n">>
      [] item = "first_line" -> <<" ", "line", "\n">>
      [] item = "cont_line" -> <<"indent", " ", "line", "\n">>
      [] OTHER -> <<>>

RECURSIVE Concat(_)
Concat(items) ==
    IF items = <<>> THEN <<>>
    ELSE WriteBytes(Head(items)) \o Concat(Tail(items))

(* Bytes the call of caller t has put on its sink so far *)
Written(t) == Concat(SubSeq(call[t].plan, 1, call[t].pos))

----------------------------------------------------------------------------
(* Arguments each Shell method passes to print *)
StatusArgs(status, message) ==
    [status |-> status, message |-> message, color |-> "Green", justified |-> TRUE]

StatusHeaderArgs(status) ==
    [status |-> status, message |-> NoMessage, color |-> "Cyan", justified |-> TRUE]

WarnArgs(message) ==
    [status |-> "(warning)", message |-> message, color |-> "Yellow", justified |-> TRUE]

NoteArgs(message) ==
    [status |-> "(note)", message |-> message, color |-> "Cyan", justified |-> TRUE]

ErrorArgs(message) ==
    [status |-> "(error)", message |-> message, color |-> "Red", justified |-> TRUE]

(* A call of method op with parameters (arg_status, arg_message) that hands *)
(* a to print on channel ch                                                 *)
NewCall(op, ch, arg_status, arg_message, a) ==
    [NoCall EXCEPT !.op = op, !.id = ncalls + 1, !.ch = ch,
                   !.arg_status = arg_status, !.arg_message = arg_message,
                   !.status = a.status, !.message = a.message,
                   !.color = a.color, !.justified = a.justified]

(* A caller between calls may start one. Callers are interchangeable: the   *)
(* one that makes the first call is numbered 1.                             *)
CanCall(t) ==
    /\ pc[t] = "idle"
    /\ ncalls < MaxCalls
    /\ ncalls = 0 => t = 1

(* A method that returns without touching a sink *)
ReturnSkipped(t, c) ==
    /\ call' = [call EXCEPT ![t] = [c EXCEPT !.outcome = "skipped"]]
    /\ ncalls' = ncalls + 1
    /\ ret' = [ret EXCEPT ![t] = "unit"]
    /\ UNCHANGED <<ctor, verbosity, sink, lock, poisoned, pc, chanlog>>

(* A method that goes on to lock the Mutex of channel ch *)
GoLock(t, c) ==
    /\ call' = [call EXCEPT ![t] = [c EXCEPT !.outcome = "running"]]
    /\ ncalls' = ncalls + 1
    /\ pc' = [pc EXCEPT ![t] = "lock"]
    /\ ret' = [ret EXCEPT ![t] = "none"]
    /\ UNCHANGED <<ctor, verbosity, sink, lock, poisoned, chanlog>>

PrintEmitsAlways(v) == TRUE

PrintEmitsVerboseOnly(v) == v = "Verbose"

(* Shell::print: match self.verbosity { Quiet => (), _ => lock out, print } *)
PrintEmits(v) == v # "Quiet"

ShellPrint(t, c) ==
    IF PrintEmits(verbosity) THEN GoLock(t, c) ELSE ReturnSkipped(t, c)

(* Shell::status *)
Status(t) ==
    /\ CanCall(t)
    /\ \E s \in StatusTokens, m \in Messages :
         ShellPrint(t, NewCall("status", "out", s, m, StatusArgs(s, m)))

(* Shell::status_header *)
StatusHeader(t) ==
    /\ CanCall(t)
    /\ \E s \in StatusTokens :
         ShellPrint(t, NewCall("status_header", "out", s, NoMessage,
                               StatusHeaderArgs(s)))

(* Shell::warn: its own match on verbosity, then Shell::print *)
WarnEmits(v) == v # "Quiet"

Warn(t) ==
    /\ CanCall(t)
    /\ \E m \in Messages :
         IF WarnEmits(verbosity)
         THEN ShellPrint(t, NewCall("warn", "out", NoStatus, m, WarnArgs(m)))
         ELSE ReturnSkipped(t, NewCall("warn", "out", NoStatus, m, WarnArgs(m)))

(* Shell::note *)
Note(t) ==
    /\ CanCall(t)
    /\ \E m \in Messages :
         ShellPrint(t, NewCall("note", "out", NoStatus, m, NoteArgs(m)))

ErrorChannelOut == "out"

(* Shell::error: locks err whatever the verbosity *)
ErrorChannel == "err"

Error(t) ==
    /\ CanCall(t)
    /\ \E m \in Messages :
         GoLock(t, NewCall("error", ErrorChannel, NoStatus, m, ErrorArgs(m)))

(* Shell::color_mode *)
ColorMode(t) ==
    /\ CanCall(t)
    /\ GoLock(t, [NoCall EXCEPT !.op = "color_mode", !.id = ncalls + 1])

(* Shell::supports_color *)
SupportsColor(t) ==
    /\ CanCall(t)
    /\ GoLock(t, [NoCall EXCEPT !.op = "supports_color", !.id = ncalls + 1])

----------------------------------------------------------------------------
MutexNeverBlocks(ch) == TRUE

OneMutexForBoth(ch) == \A c \in Channels : lock[c] = NoThread

(* Mutex::lock: blocks until the Mutex is free *)
MutexFree(ch) == lock[ch] = NoThread

(* A panic of caller t: the thread unwinds; a guard it holds on ch is        *)
(* dropped while panicking, which poisons the Mutex.                         *)
Panic(t, ch, holding, why) ==
    /\ pc' = [pc EXCEPT ![t] = "panicked"]
    /\ call' = [call EXCEPT ![t].outcome = why]
    /\ lock' = [lock EXCEPT ![ch] = IF holding THEN NoThread ELSE @]
    /\ poisoned' = [poisoned EXCEPT ![ch] = IF holding THEN TRUE ELSE @]
    /\ UNCHANGED <<ctor, verbosity, sink, ncalls, ret, chanlog>>

(* Entry of OutSink::print on sink s: let width = self.width(), then match *)
EnterPrint(t, s, w) ==
    call' = [call EXCEPT ![t].prints = @ + 1,
                         ![t].width = w,
                         ![t].plan = PrintPlan(s, call[t].message,
                                               call[t].justified, w),
                         ![t].pos = 0]

(* self.out.lock().expect(..) / self.err.lock().expect(..) and what follows  *)
Lock(t) ==
    /\ pc[t] = "lock"
    /\ MutexFree(call[t].ch)
    /\ IF poisoned[call[t].ch]
       THEN Panic(t, call[t].ch, FALSE, "poisoned")
       ELSE /\ lock' = [lock EXCEPT ![call[t].ch] = t]
            /\ IF call[t].op \in {"color_mode", "supports_color"}
               THEN /\ pc' = [pc EXCEPT ![t] = "query"]
                    /\ UNCHANGED call
               ELSE /\ pc' = [pc EXCEPT ![t] = "print"]
                    /\ \E w \in ProbeWidths(sink[call[t].ch]) \cap ShellWidths :
                         EnterPrint(t, sink[call[t].ch], w)
            /\ UNCHANGED <<ctor, verbosity, sink, poisoned, ncalls, ret, chanlog>>

CallId(t) == <<t, call[t].id>>

LogWrite(log, id) ==
    IF Len(log) > 0 /\ log[Len(log)] = id THEN log ELSE Append(log, id)

(* The guard goes out of scope and the method returns (); nothing of the    *)
(* call is kept                                                              *)
Return(t) ==
    /\ pc' = [pc EXCEPT ![t] = "idle"]
    /\ call' = [call EXCEPT ![t] = NoCall]
    /\ lock' = [lock EXCEPT ![call[t].ch] = NoThread]
    /\ ret' = [ret EXCEPT ![t] = "unit"]
    /\ UNCHANGED <<ctor, verbosity, sink, poisoned, ncalls, chanlog>>

OnWriteErrorUnwrap(t) == Panic(t, call[t].ch, TRUE, "panic")

(* A write returned Err: `?` leaves OutSink::print, `let _ =` drops the     *)
(* io::Result                                                               *)
OnWriteError(t) == Return(t)

NextItem(t) == call[t].plan[call[t].pos + 1]

(* One stream.reset / set_color / write! / writeln! of OutSink::print *)
PrintWrite(t) ==
    /\ pc[t] = "print"
    /\ call[t].pos < Len(call[t].plan)
    /\ NextItem(t) # "wrap"
    /\ \/ /\ call' = [call EXCEPT ![t].pos = @ + 1]
          /\ chanlog' = [chanlog EXCEPT ![call[t].ch] = LogWrite(@, CallId(t))]
          /\ UNCHANGED <<ctor, verbosity, sink, lock, poisoned, pc, ncalls, ret>>
       \/ OnWriteError(t)

(* width - (offset + 1) in usize: None when the subtraction overflows *)
WrapWidth(width, offset) ==
    IF width >= offset + 1 THEN width - (offset + 1) ELSE -1

(* The value a build without overflow checks computes *)
WrappingSub(width, offset) == (width - (offset + 1)) % UsizeMod

(* textwrap::wrap_iter(&formatted, w) yields some number of lines *)
StartLines(t, w) ==
    \E n \in 0..MaxLines :
      /\ call' = [call EXCEPT ![t].wrap = w,
                              ![t].plan = SubSeq(@, 1, call[t].pos) \o WrappedLines(n)]
      /\ UNCHANGED <<ctor, verbosity, sink, lock, poisoned, pc, ncalls, ret, chanlog>>

(* let lines = textwrap::wrap_iter(&formatted, width - (offset + 1)) *)
PrintWrap(t) ==
    /\ pc[t] = "print"
    /\ call[t].pos < Len(call[t].plan)
    /\ NextItem(t) = "wrap"
    /\ LET off == Offset(sink[call[t].ch], call[t].status, call[t].justified)
           w == WrapWidth(call[t].width, off)
       IN  \/ /\ w >= 0
              /\ StartLines(t, w)
           \/ /\ w < 0    \* overflow checks on: attempt to subtract with overflow
              /\ Panic(t, call[t].ch, TRUE, "panic")
           \/ /\ w < 0    \* overflow checks off: the subtraction wraps around
              /\ StartLines(t, WrappingSub(call[t].width, off))

(* Ok(()) *)
PrintReturn(t) ==
    /\ pc[t] = "print"
    /\ call[t].pos = Len(call[t].plan)
    /\ Return(t)

ColorModeOfResolved(s) == IF s.kind = "Stream" THEN s.choice ELSE "Never"

(* match *out { OutSink::Stream { color_mode, .. } => color_mode,            *)
(*              OutSink::Write(_) => ColorMode::Never }                      *)
ColorModeOf(s) == IF s.kind = "Stream" THEN s.color_mode ELSE "Never"

(* OutSink::Write(_) => false, Stream => stream.supports_color(): what the   *)
(* StandardStream decided from its ColorChoice (and, for Auto, from the      *)
(* environment)                                                              *)
SupportsColorOf(s) ==
    IF s.kind = "Write" THEN {"false"}
    ELSE CASE s.choice = "Always" -> {"true"}
           [] s.choice = "Never" -> {"false"}
           [] OTHER -> {"true", "false"}

QueryReturn(t) ==
    /\ pc[t] = "query"
    /\ pc' = [pc EXCEPT ![t] = "idle"]
    /\ call' = [call EXCEPT ![t] = NoCall]
    /\ lock' = [lock EXCEPT ![call[t].ch] = NoThread]
    /\ \E r \in (IF call[t].op = "color_mode" THEN {ColorModeOf(sink["out"])}
                 ELSE SupportsColorOf(sink["out"])) :
         ret' = [ret EXCEPT ![t] = r]
    /\ UNCHANGED <<ctor, verbosity, sink, poisoned, ncalls, chanlog>>

----------------------------------------------------------------------------
Next ==
    \E t \in Threads :
      \/ Status(t)
      \/ StatusHeader(t)
      \/ Warn(t)
      \/ Error(t)
      \/ Note(t)
      \/ ColorMode(t)
      \/ SupportsColor(t)
      \/ Lock(t)
      \/ PrintWrite(t)
      \/ PrintWrap(t)
      \/ PrintReturn(t)
      \/ QueryReturn(t)

Spec == Init /\ [][Next]_vars

----------------------------------------------------------------------------
(* OutSink::print(status, message, color, justified) applied to one of the   *)
(* Shell's sinks by a caller with exclusive access to it                     *)
SinkPrint(t) ==
    /\ CanCall(t)
    /\ \E ch \in Channels, s \in StatusTokens, m \in Messages \cup {NoMessage},
          c \in Colors, j \in BOOLEAN :
         /\ MutexFree(ch)
         /\ ~poisoned[ch]
         /\ \E w \in ProbeWidths(sink[ch]) :
              call' = [call EXCEPT ![t] =
                         [NewCall("print", ch, s, m,
                                  [status |-> s, message |-> m, color |-> c,
                                   justified |-> j])
                            EXCEPT !.outcome = "running", !.prints = 1, !.width = w,
                                   !.plan = PrintPlan(sink[ch], m, j, w)]]
         /\ lock' = [lock EXCEPT ![ch] = t]
    /\ pc' = [pc EXCEPT ![t] = "print"]
    /\ ncalls' = ncalls + 1
    /\ ret' = [ret EXCEPT ![t] = "none"]
    /\ UNCHANGED <<ctor, verbosity, sink, poisoned, chanlog>>

NextSink ==
    \/ SinkPrint(1)
    \/ PrintWrite(1)
    \/ PrintWrap(1)
    \/ PrintReturn(1)

(* OutSink::print does not read the verbosity: the sinks of every            *)
(* constructor call, under one setting of the verbosity flags                *)
InitSink == \E c \in Ctors : ~c.quiet /\ InitShell(c)

SpecSink == InitSink /\ [][NextSink]_vars

----------------------------------------------------------------------------
(* Properties *)

Range(f) == {f[i] : i \in DOMAIN f}

(* The call of caller t has put nothing on channel ch *)
WroteNothingOn(t, ch) == CallId(t) \notin Range(chanlog[ch])

(* Caller t is inside the one OutSink::print of its call, on channel ch,     *)
(* holding that channel's guard                                              *)
InOnePrintOn(t, ch) ==
    /\ call[t].prints = 1
    /\ call[t].ch = ch
    /\ lock[ch] = t

(* A caller leaves the wait for its guard either into the method body or,   *)
(* when the Mutex is poisoned, by the panic of expect                       *)
LeavesLock(t) == pc[t] = "lock" /\ pc'[t] # "lock"

PoisonPanic(t) == poisoned[call[t].ch] /\ pc'[t] = "panicked"

(* The call of caller t returned at once: no guard taken, nothing written *)
Skipped(t) ==
    /\ call[t].outcome = "skipped"
    /\ pc[t] = "idle"
    /\ ret[t] = "unit"
    /\ call[t].prints = 0
    /\ \A ch \in Channels : lock[ch] # t /\ WroteNothingOn(t, ch)

(* C1: whatever the verbosity, error(message) goes on to lock the error     *)
(* channel, performs exactly one print there with token "(error)", colour   *)
(* red, justified, and its own message, and writes nothing to the output    *)
(* channel.                                                                 *)
C1_ErrorInPrint ==
    \A t \in Threads :
      call[t].op = "error" =>
        /\ call[t].outcome # "skipped"
        /\ pc[t] # "idle"
        /\ pc[t] = "print" =>
             /\ InOnePrintOn(t, "err")
             /\ call[t].status = "(error)"
             /\ call[t].color = "Red"
             /\ call[t].justified
             /\ call[t].message \in Messages
             /\ call[t].message = call[t].arg_message
             /\ WroteNothingOn(t, "out")

C1_ErrorStep ==
    \A t \in Threads :
      (call[t].op = "error" /\ LeavesLock(t)) => (pc'[t] = "print" \/ PoisonPanic(t))

(* C1: the state and step parts together *)
C1_ErrorAlwaysPrints == []C1_ErrorInPrint /\ [][C1_ErrorStep]_vars

(* An error call under Quiet has written its whole line to the error sink *)
C1_Witness ==
    \E t \in Threads :
      /\ verbosity = "Quiet"
      /\ call[t].op = "error"
      /\ pc[t] = "print"
      /\ call[t].pos = Len(call[t].plan)
      /\ call[t].pos > 0
      /\ ncalls = MaxCalls

(* C2, as stated: note(message) emits under every verbosity, Quiet included *)
C2_NoteAlwaysEmits ==
    \A t \in Threads : call[t].op = "note" => call[t].outcome # "skipped"

(* C2, amended: note(message) is gated like status: under Quiet it writes    *)
(* nothing and takes no guard; under Normal or Verbose it performs exactly   *)
(* one print on the output channel with token "(note)", colour cyan,         *)
(* justified, and its own message.                                           *)
C2_NoteInPrint ==
    \A t \in Threads :
      call[t].op = "note" =>
        /\ IF verbosity = "Quiet" THEN Skipped(t) ELSE call[t].outcome # "skipped"
        /\ WroteNothingOn(t, "err")
        /\ pc[t] = "print" =>
             /\ InOnePrintOn(t, "out")
             /\ call[t].status = "(note)"
             /\ call[t].color = "Cyan"
             /\ call[t].justified
             /\ call[t].message \in Messages
             /\ call[t].message = call[t].arg_message

C2_NoteStep ==
    \A t \in Threads :
      (call[t].op = "note" /\ LeavesLock(t)) => (pc'[t] = "print" \/ PoisonPanic(t))

(* C2, amended: the state and step parts together *)
C2_NoteGated == []C2_NoteInPrint /\ [][C2_NoteStep]_vars

C2_Witness ==
    \E t \in Threads :
      /\ verbosity = "Normal"
      /\ call[t].op = "note"
      /\ pc[t] = "print"
      /\ call[t].pos = Len(call[t].plan)
      /\ call[t].pos > 0

(* C3: status, status_header and warn are gated by verbosity: under Quiet    *)
(* each writes nothing and takes no guard; under Normal or Verbose each      *)
(* performs exactly one print on the output channel (status: green with its *)
(* message; status_header: cyan, no message; warn: yellow, "(warning)") and *)
(* never writes to the error channel.                                        *)
GatedOps == {"status", "status_header", "warn"}

C3_GatedInPrint ==
    \A t \in Threads :
      call[t].op \in GatedOps =>
        /\ IF verbosity = "Quiet" THEN Skipped(t) ELSE call[t].outcome # "skipped"
        /\ WroteNothingOn(t, "err")
        /\ pc[t] = "print" =>
             /\ InOnePrintOn(t, "out")
             /\ call[t].justified
             /\ call[t].op = "status" =>
                  /\ call[t].color = "Green"
                  /\ call[t].status = call[t].arg_status
                  /\ call[t].message \in Messages
                  /\ call[t].message = call[t].arg_message
             /\ call[t].op = "status_header" =>
                  /\ call[t].color = "Cyan"
                  /\ call[t].status = call[t].arg_status
                  /\ call[t].message = NoMessage
             /\ call[t].op = "warn" =>
                  /\ call[t].color = "Yellow"
                  /\ call[t].status = "(warning)"
                  /\ call[t].message \in Messages
                  /\ call[t].message = call[t].arg_message

C3_GatedStep ==
    \A t \in Threads :
      (call[t].op \in GatedOps /\ LeavesLock(t)) => (pc'[t] = "print" \/ PoisonPanic(t))

(* C3: the state and step parts together *)
C3_Gated == []C3_GatedInPrint /\ [][C3_GatedStep]_vars

(* Under Quiet a status call and a warn call have both returned at once *)
C3_Witness ==
    /\ verbosity = "Quiet"
    /\ call[1].op = "status"
    /\ Skipped(1)
    /\ call[2].op = "warn"
    /\ Skipped(2)

(* C4: writers to one channel serialize: the guard is held from before a    *)
(* print's first write until after its last, so the writes of one call on   *)
(* a channel form one contiguous block.                                     *)
NoRepeat(log) == \A i, j \in DOMAIN log : log[i] = log[j] => i = j

C4_Serialized ==
    /\ \A ch \in Channels : NoRepeat(chanlog[ch])
    /\ \A t \in Threads : pc[t] = "print" => lock[call[t].ch] = t
    /\ \A t, u \in Threads :
         (t # u /\ pc[t] = "print" /\ pc[u] = "print") => call[t].ch # call[u].ch

(* One call is in the middle of its writes on a channel while another call  *)
(* for the same channel waits for the guard                                  *)
C4_Witness ==
    \E t, u \in Threads :
      /\ t # u
      /\ pc[t] = "print"
      /\ call[t].pos >= 1
      /\ call[t].pos < Len(call[t].plan)
      /\ pc[u] = "lock"
      /\ call[u].ch = call[t].ch
      /\ call[u].op \notin {"color_mode", "supports_color"}

(* C5: the two channels are guarded independently: no caller holds both     *)
(* guards, a caller waiting for a guard is blocked only by the holder of    *)
(* that same guard, and a holder never waits: it can always take its next   *)
(* step. Hence no interleaving of calls deadlocks.                          *)
Holds(t, ch) == lock[ch] = t

C5_Independent ==
    /\ \A t \in Threads : ~(Holds(t, "out") /\ Holds(t, "err"))
    /\ \A t \in Threads :
         pc[t] = "lock" => (ENABLED Lock(t) <=> lock[call[t].ch] = NoThread)
    /\ \A t \in Threads, ch \in Channels :
         Holds(t, ch) =>
           /\ call[t].ch = ch
           /\ pc[t] \in {"print", "query"}
           /\ ENABLED (PrintWrite(t) \/ PrintWrap(t) \/ PrintReturn(t) \/ QueryReturn(t))

(* A status call holds the output guard in mid-print while an error call    *)
(* holds the error guard in mid-print                                        *)
C5_Witness ==
    \E t, u \in Threads :
      /\ Holds(t, "out") /\ call[t].op = "status" /\ call[t].pos >= 1
      /\ Holds(u, "err") /\ call[u].op = "error" /\ call[u].pos >= 1

(* C6: colour resolution is total and matches the table: Always -> Always   *)
(* and Never -> Never whether or not the stream is a terminal; Auto -> Auto *)
(* on a terminal and Never otherwise.                                        *)
ColorChoices == {"Always", "Never", "Auto"}

ResolvedAsTable(mode, is_terminal, choice) ==
    /\ choice \in ColorChoices
    /\ mode = "Always" => choice = "Always"
    /\ mode = "Never" => choice = "Never"
    /\ (mode = "Auto" /\ is_terminal) => choice = "Auto"
    /\ (mode = "Auto" /\ ~is_terminal) => choice = "Never"

C6_Resolution ==
    /\ \A m \in ColorModes, b \in BOOLEAN : ResolvedAsTable(m, b, into_termcolor(m, b))
    /\ ctor.kind = "new" =>
         /\ ResolvedAsTable(ctor.color_mode, ctor.tty_out, sink["out"].choice)
         /\ ResolvedAsTable(ctor.color_mode, ctor.tty_err, sink["err"].choice)

(* A Shell built with Auto whose stdout is a terminal and whose stderr is   *)
(* not                                                                       *)
C6_Witness ==
    /\ ctor.kind = "new"
    /\ ctor.color_mode = "Auto"
    /\ ctor.tty_out /\ ~ctor.tty_err
    /\ sink["out"].choice = "Auto"
    /\ sink["err"].choice = "Never"

(* C7, as stated: with the terminal width W known, the wrap width is        *)
(* W - (occupied + 1) guarded against underflow: it is 1 whenever           *)
(* W <= occupied + 1, and the subtraction never wraps around or aborts the  *)
(* print.                                                                    *)
GuardedWrapWidth(width, offset) ==
    IF width > offset + 1 THEN width - (offset + 1) ELSE 1

C7_WrapGuarded ==
    \A t \in Threads :
      /\ call[t].outcome # "panic"
      /\ (pc[t] = "print" /\ call[t].wrap # -1) =>
           call[t].wrap = GuardedWrapWidth(call[t].width,
                                           Offset(sink[call[t].ch], call[t].status,
                                                  call[t].justified))

(* C8, as stated: a print on a plain sink never writes a colon *)
OnWriteSink(t) == pc[t] = "print" /\ sink[call[t].ch].kind = "Write"

C8_NoColonOnWriteSink ==
    \A t \in Threads : OnWriteSink(t) => ":" \notin Range(Written(t))

(* C8, amended: a print on a plain sink appends a colon to the status token *)
(* exactly when justified = false; when justified = true what precedes the  *)
(* message is the token and its padding only.                               *)
C8_ColonIffNotJustified ==
    \A t \in Threads :
      (OnWriteSink(t) /\ call[t].pos >= 1) =>
        /\ SubSeq(Written(t), 1, 2) =
             (IF call[t].justified THEN <<"status", "pad">> ELSE <<"status", ":">>)
        /\ ":" \in Range(Written(t)) <=> ~call[t].justified
        /\ call[t].pos = Len(call[t].plan) =>
             Written(t) = SubSeq(Written(t), 1, 2)
                          \o (IF call[t].message = NoMessage THEN <<" ">>
                              ELSE <<" ", "message", "\n">>)

(* A non-justified print with a message has written its whole line on a     *)
(* plain sink                                                                *)
C8_Witness ==
    \E t \in Threads :
      /\ OnWriteSink(t)
      /\ ~call[t].justified
      /\ call[t].message # NoMessage
      /\ call[t].pos = Len(call[t].plan)

(* C9: a write failure inside a print is swallowed: the print stops at that *)
(* step, the method returns () normally, the guard is released and not      *)
(* poisoned, verbosity and both sinks are unchanged, and nothing of the     *)
(* failed call is left behind, so later calls proceed as after any call.    *)
AtWrite(t) ==
    /\ pc[t] = "print"
    /\ call[t].pos < Len(call[t].plan)
    /\ NextItem(t) # "wrap"

WriteFailed(t) == AtWrite(t) /\ call'[t] # [call[t] EXCEPT !.pos = @ + 1] /\ call'[t] # call[t]

C9_Swallowed ==
    [][\A t \in Threads :
         WriteFailed(t) =>
           /\ pc'[t] = "idle"
           /\ ret'[t] = "unit"
           /\ call'[t] = NoCall
           /\ lock' = [lock EXCEPT ![call[t].ch] = NoThread]
           /\ UNCHANGED <<poisoned, verbosity, sink, ctor, chanlog>>
           /\ \A u \in Threads \ {t} : pc'[u] = pc[u] /\ call'[u] = call[u]]_vars

(* The first call failed on its first write and returned; a later call is   *)
(* now printing                                                              *)
C9_Witness ==
    \E t \in Threads \ {1} :
      /\ verbosity # "Quiet"
      /\ ncalls = 2
      /\ pc[1] = "idle"
      /\ ret[1] = "unit"
      /\ call[1] = NoCall
      /\ pc[t] = "print"
      /\ call[t].id = 2
      /\ call[t].pos = Len(call[t].plan)
      /\ chanlog[call[t].ch] = <<CallId(t)>>
      /\ \A ch \in Channels \ {call[t].ch} : chanlog[ch] = <<>>
      /\ \A ch \in Channels : ~poisoned[ch]

(* C10: in every reachable state the verbosity is the one fixed at           *)
(* construction (from the settings, Verbose for plain sinks), each sink's    *)
(* kind, colour mode and is-terminal flag are unchanged, and color_mode()    *)
(* returns that same colour mode on every call, Never for plain sinks.       *)
VerbosityAtConstruction ==
    IF ctor.kind = "from_write" THEN "Verbose"
    ELSE IF ctor.quiet THEN "Quiet"
    ELSE IF ctor.verbose THEN "Verbose" ELSE "Normal"

SinkAsConstructed(ch, is_terminal) ==
    IF ctor.kind = "from_write" THEN sink[ch].kind = "Write"
    ELSE /\ sink[ch].kind = "Stream"
         /\ sink[ch].color_mode = ctor.color_mode
         /\ sink[ch].is_tty = is_terminal

C10_Immutable ==
    /\ verbosity = VerbosityAtConstruction
    /\ SinkAsConstructed("out", ctor.tty_out)
    /\ SinkAsConstructed("err", ctor.tty_err)
    /\ \A t \in Threads :
         (pc[t] = "idle" /\ ret[t] \notin {"none", "unit", "true", "false"}) =>
           ret[t] = (IF ctor.kind = "from_write" THEN "Never" ELSE ctor.color_mode)

(* After an earlier call, color_mode() has returned Auto on a Shell whose   *)
(* stdout is not a terminal                                                  *)
C10_Witness ==
    \E t \in Threads :
      /\ ncalls = 2
      /\ pc[t] = "idle"
      /\ ret[t] = "Auto"
      /\ ~ctor.tty_out
      /\ chanlog["out"] # <<>>

====
